---- MODULE Spec2Model ----
(***************************************************************************)
(* Watch-party chat of careflix: the ChatWidget reducer and handlers, the  *)
(* grouping of party logs, and the PartyState broadcast event.             *)
(***************************************************************************)
EXTENDS Integers, Sequences, FiniteSets, TLC

(* ---------------------------- bounds ----------------------------------- *)
\* longest log list handed to groupPartyLogs
MaxGroupLen == 5
\* entries the server accepts into the party's log
MaxLog == 2
\* messages the members submit, all together
MaxSends == 2
\* pushed events the channel delivers a second time
MaxDup == 1
\* playback updates accepted, all parties together
MaxVersion == 2
\* log events broadcast next to the state events, all parties together
MaxPartyLogs == 1

\* GETs of the groups of a show the modal sends
MaxFetches == 2

(* ---------------------------- data ------------------------------------- *)
\* the users of the party (AppUser.id)
Users == {1, 2}

\* AppPartyLog.type
LogTypes == {"activity", "message"}

\* a draft / message text, as a sequence of characters
Texts == {<<>>, <<" ">>, <<"a">>}

\* AppPartyLog, flattened: log[log.type].user is `user', log[log.type].text
\* is `text'; seq is the server's sequence number (0: not accepted yet)
AppPartyLog(id, type, user, text, seq) ==
  [id |-> id, type |-> type, user |-> user, text |-> text, seq |-> seq]

\* the parties, and the party each user is watching (props.party.id)
Parties == {7, 8}

Watching == (1 :> 7) @@ (2 :> 8)

\* Party.current_time, in seconds
Times == {0, 5}

\* the users whose mounted ChatWidget is followed step by step; the other
\* users of the party act through the server only
Members == {1}

\* placeholder for "no entry"
NoLog == AppPartyLog(0, "message", 0, <<>>, 0)

VARIABLES
  state,            \* per member: the reducer state of the ChatWidget
  request,          \* per member: the history load, [pc, logs]
  isWindowVisible,  \* per member: useWindowVisibility()
  idleAudio,        \* per member: times idleAudioRef.current.play() ran
  view,             \* per member: the scroll position of the message list, the
                    \* pending 'scroll' event, hasUnreadMessages and the two refs
  posts,            \* the POSTs of handleMessage awaiting their outcome
  channel,          \* per member: 'log' events queued on the push channel
  nextUuid,         \* uuid() calls made so far
  dups,             \* events delivered a second time so far
  serverLogs,       \* the party's log on the server
  nextSeq,          \* the next sequence number of the party's log
  party,            \* per party: the Party row (is_playing, current_time, version)
  jobs,             \* per party: queued PartyState events not yet broadcast
  published,        \* the envelopes handed to the push service so far
  inbox,            \* per viewer: envelopes on their way to the viewer
  playback,         \* per viewer: the playback state applied last
  reply,            \* the answer to the last playback update
  gLogs,      \* grouping: the logs handed to groupPartyLogs (state.logs)
  grouped,    \* grouping: the memoised result `grouped'
  gPc         \* grouping: "init" before the first render, "rendered" after
              \* it, "pushed" once the list has grown and been regrouped

VARIABLES
  mPc,              \* ShowModal: "init" before the first render, "mounted",
                    \* "crashed" once a render has thrown
  mShow,            \* props.show
  mState,           \* the state of the useReducer of ShowModal
  mGroup,           \* the memoised `group'
  mFetches,         \* GETs of api/shows/<id>/groups in flight
  mCount,           \* GETs sent so far
  mAction           \* the action last dispatched to the reducer of ShowModal

chatVars == <<state, request, isWindowVisible, idleAudio, view, posts, channel,
              nextUuid, dups, serverLogs, nextSeq>>
groupVars == <<gLogs, grouped, gPc>>
partyVars == <<party, jobs, published, inbox, playback, reply>>
modalVars == <<mPc, mShow, mState, mGroup, mFetches, mCount, mAction>>
vars == <<chatVars, groupVars, partyVars, modalVars>>

(* ---------------------------- groupPartyLogs --------------------------- *)
\* ~/utils/last
last(s) == s[Len(s)]

\* the forEach callback of groupPartyLogs: one log against the last group
GroupFitsNoAuthor(recent, log) ==
  \/ (log.type = "activity" /\ recent.type = log.type)
  \/ (log.type = "message" /\ recent.type = log.type)

GroupFits(recent, log) ==
  \/ (log.type = "activity" /\ recent.type = log.type)
  \/ (log.type = "message" /\ recent.type = log.type /\ recent.user = log.user)

GroupStepFirst(groups, log) ==
  LET recent == groups[1] IN
  IF GroupFits(recent, log)
    THEN [groups EXCEPT ![1].logs = Append(recent.logs, log)]
    ELSE Append(groups, [type |-> log.type, user |-> log.user, logs |-> <<log>>])

GroupStep(groups, log) ==
  LET recent == last(groups) IN
  IF GroupFits(recent, log)
    THEN [groups EXCEPT ![Len(groups)].logs = Append(recent.logs, log)]
    ELSE Append(groups, [type |-> log.type, user |-> log.user, logs |-> <<log>>])

RECURSIVE GroupFold(_, _, _)
GroupFold(groups, logs, i) ==
  IF i > Len(logs) THEN groups
  ELSE GroupFold(GroupStep(groups, logs[i]), logs, i + 1)

groupPartyLogsNoSlice(logs) ==
  IF Len(logs) = 0 THEN <<>>
  ELSE LET first == logs[1] IN
       GroupFold(<<[type |-> first.type, user |-> first.user, logs |-> <<first>>]>>,
                 logs, 1)

groupPartyLogs(logs) ==
  IF Len(logs) = 0 THEN <<>>
  ELSE LET first == logs[1] IN
       GroupFold(<<[type |-> first.type, user |-> first.user, logs |-> <<first>>]>>,
                 logs, 2)

(* ---------------------------- ChatWidget reducer ----------------------- *)
\* const init: State
init == [logs |-> <<>>, message |-> [text |-> <<>>], isSending |-> <<>>, isLoading |-> FALSE]

\* Array.prototype.findIndex: 0-based index of the first match, -1 if none
findIndex(logs, id) ==
  IF \E i \in 1..Len(logs) : logs[i].id = id
    THEN (CHOOSE i \in 1..Len(logs) :
            logs[i].id = id /\ \A j \in 1..(i - 1) : logs[j].id # id) - 1
    ELSE -1

ReduceRequestInit(s) == [s EXCEPT !.isLoading = TRUE]

ReduceRequestSuccess(s, payload) == [s EXCEPT !.logs = payload.logs, !.isLoading = FALSE]

ReduceRequestError(s) == [s EXCEPT !.isLoading = FALSE]

ReduceLogsPushFront(s, payload) == [s EXCEPT !.logs = <<payload.log>> \o s.logs]

ReduceLogsPush(s, payload) == [s EXCEPT !.logs = Append(s.logs, payload.log)]

ReduceChatInput(s, payload) == [s EXCEPT !.message.text = payload.input]

ReduceChatInit(s, payload) ==
  [s EXCEPT !.message.text = <<>>, !.logs = Append(s.logs, payload.log)]

ReduceChatErrorRollback(s) == [s EXCEPT !.logs = SubSeq(@, 1, Len(@) - 1)]

ReduceChatError(s) == s

\* draft.logs[index] = log; with index -1 the immer draft gets a property
\* "-1" and the elements and the length of the array stay as they were
ReduceChatSuccess(s, payload) ==
  LET index == findIndex(s.logs, payload.id) IN
  IF index >= 0 THEN [s EXCEPT !.logs[index + 1] = payload.log] ELSE s

reducer(s, action) ==
  CASE action.type = "request:init" -> ReduceRequestInit(s)
    [] action.type = "request:success" -> ReduceRequestSuccess(s, action.payload)
    [] action.type = "request:error" -> ReduceRequestError(s)
    [] action.type = "logs:push" -> ReduceLogsPush(s, action.payload)
    [] action.type = "chat:input" -> ReduceChatInput(s, action.payload)
    [] action.type = "chat:init" -> ReduceChatInit(s, action.payload)
    [] action.type = "chat:error" -> ReduceChatError(s)
    [] action.type = "chat:success" -> ReduceChatSuccess(s, action.payload)

\* dispatch of the useReducer of member m
Dispatch(m, action) == state' = [state EXCEPT ![m] = reducer(state[m], action)]

(* ---------------------------- ChatWidget helpers ----------------------- *)
Whitespace == {" "}

RECURSIVE trimLeft(_)
trimLeft(t) == IF t # <<>> /\ Head(t) \in Whitespace THEN trimLeft(Tail(t)) ELSE t

RECURSIVE trimRight(_)
trimRight(t) ==
  IF t # <<>> /\ t[Len(t)] \in Whitespace THEN trimRight(SubSeq(t, 1, Len(t) - 1)) ELSE t

isSubmittableNoTrim(s) == Len(s.message.text) > 0

isSubmittable(s) == Len(trimLeft(trimRight(s.message.text))) > 0

\* ~/lib/uuid: the n-th id generated; server ids are the small numbers
uuid(n) == 100 + n

\* the pusher subscription exists from the mount of the widget
Subscribed(m) == request[m].pc # "unmounted"

(* ---------------------------- ChatWidget scrolling --------------------- *)
\* entries the message list shows without a scroll bar
Fit == 1

\* hasUnreadMessages, shouldScrollToBottomRef, isReceivingRef as the component
\* creates them; the empty list is at scrollTop 0 with no event pending
\* (lastScrollDistanceFromBottom is only written by the code modelled here;
\* its reader, the effect on the height of the container, is not modelled)
initView ==
  [scrollTop |-> 0, scrollEvent |-> FALSE, hasUnreadMessages |-> FALSE,
   shouldScrollToBottom |-> TRUE, isReceiving |-> TRUE]

\* getScrollableContainerHeight: scrollHeight - offsetHeight, in entries
getScrollableContainerHeight(logs) == IF Len(logs) > Fit THEN Len(logs) - Fit ELSE 0

isScrolledToBottom(v, logs) == v.scrollTop >= getScrollableContainerHeight(logs)

\* el.scrollTop = ...: a 'scroll' event follows when the position changed
SetScrollTop(v, top) ==
  [v EXCEPT !.scrollTop = top, !.scrollEvent = v.scrollEvent \/ (top # v.scrollTop)]

scrollToBottom(v, logs) == SetScrollTop(v, getScrollableContainerHeight(logs))

\* the list is rendered with `logs': the browser keeps scrollTop within range
Rendered(v, logs) ==
  IF v.scrollTop > getScrollableContainerHeight(logs)
    THEN SetScrollTop(v, getScrollableContainerHeight(logs)) ELSE v

\* useLayoutEffect on [state.logs.length], after the render that follows a
\* dispatch taking the list from `old' to `new'
useLayoutEffect(v, old, new) ==
  IF Len(new) = Len(old) THEN Rendered(v, new)
  ELSE IF ~v.isReceiving \/ v.shouldScrollToBottom
         THEN scrollToBottom(Rendered(v, new), new)
         ELSE [Rendered(v, new) EXCEPT !.hasUnreadMessages = TRUE]

(* ---------------------------- ShowModal data --------------------------- *)
\* props.show == null
NoShow == [id |-> 0, title_type |-> "null"]

Shows ==
  {[id |-> 1, title_type |-> "series"], [id |-> 2, title_type |-> "series"],
   [id |-> 3, title_type |-> "movie"], [id |-> 4, title_type |-> "series"]}

AppShowGroup(id) == [id |-> id, videos |-> <<10 * id + 1>>]

\* the groups api/shows/<id>/groups answers with
ShowGroups(id) ==
  CASE id = 1 -> <<AppShowGroup(10), AppShowGroup(11)>>
    [] id = 2 -> <<AppShowGroup(20)>>
    [] OTHER -> <<>>

\* Array.prototype.find with no match
undefined == [id |-> -1, videos |-> <<>>]

\* props.initialSelectedGroupId; 0 stands for the prop not being given
InitialSelectedGroupIds == {0, 10, 20}

NoAction == [type |-> "none"]

\* the initial state handed to useReducer
ShowModalInit(initialSelectedGroupId) ==
  [groups |-> <<>>, isLoading |-> FALSE,
   selectedGroupId |-> IF initialSelectedGroupId # 0 THEN initialSelectedGroupId ELSE -1]

(* ---------------------------- initial values ---------------------------- *)
ChatIdle ==
  /\ state = [m \in Members |-> init]
  /\ request = [m \in Members |-> [pc |-> "unmounted", logs |-> <<>>]]
  /\ isWindowVisible = [m \in Members |-> TRUE]
  /\ idleAudio = [m \in Members |-> 0]
  /\ view = [m \in Members |-> initView]
  /\ posts = {}
  /\ channel = [m \in Members |-> <<>>]
  /\ nextUuid = 0
  /\ dups = 0
  /\ serverLogs = <<>>
  /\ nextSeq = 1

PartyIdle ==
  /\ party = [p \in Parties |->
                [id |-> p, is_playing |-> FALSE, current_time |-> 0, version |-> 0]]
  /\ jobs = [p \in Parties |-> 0]
  /\ published = {}
  /\ inbox = [v \in Users |-> {}]
  /\ playback = [v \in Users |->
                   [is_playing |-> FALSE, current_time |-> 0, version |-> 0]]
  /\ reply = [status |-> "none", version |-> 0]

GroupIdle ==
  /\ gLogs = <<>>
  /\ grouped = <<>>
  /\ gPc = "init"

ModalIdle ==
  /\ mPc = "init"
  /\ mShow = NoShow
  /\ mState = ShowModalInit(0)
  /\ mGroup = undefined
  /\ mFetches = {}
  /\ mCount = 0
  /\ mAction = NoAction

(* ---------------------------- ChatWidget handlers ---------------------- *)
\* mount: the history effect dispatches request:init and sends the GET;
\* the pusher subscription starts
Mount(m) ==
  /\ request[m].pc = "unmounted"
  /\ Dispatch(m, [type |-> "request:init"])
  /\ request' = [request EXCEPT ![m].pc = "sent"]
  /\ UNCHANGED <<isWindowVisible, idleAudio, view, posts, channel, nextUuid, dups,
                 serverLogs, nextSeq, groupVars, partyVars, modalVars>>

\* the GET resolved with err == null
FetchSuccess(m) ==
  /\ request[m].pc = "ok"
  /\ Dispatch(m, [type |-> "request:success", payload |-> [logs |-> request[m].logs]])
  /\ request' = [request EXCEPT ![m] = [pc |-> "done", logs |-> <<>>]]
  /\ view' = [view EXCEPT ![m] =
                scrollToBottom(useLayoutEffect(@, state[m].logs, state'[m].logs),
                               state'[m].logs)]
  /\ UNCHANGED <<isWindowVisible, idleAudio, posts, channel, nextUuid, dups,
                 serverLogs, nextSeq, groupVars, partyVars, modalVars>>

\* the GET resolved with an error
FetchError(m) ==
  /\ request[m].pc = "err"
  /\ Dispatch(m, [type |-> "request:error"])
  /\ request' = [request EXCEPT ![m] = [pc |-> "done", logs |-> <<>>]]
  /\ UNCHANGED <<isWindowVisible, idleAudio, view, posts, channel, nextUuid, dups,
                 serverLogs, nextSeq, groupVars, partyVars, modalVars>>

\* the usePusher 'log' callback, run for the event at the head of the channel
PusherLog(m) ==
  /\ Subscribed(m)
  /\ channel[m] # <<>>
  /\ LET event == [log |-> Head(channel[m])] IN
       /\ Dispatch(m, [type |-> "logs:push", payload |-> [log |-> event.log]])
       /\ idleAudio' =
            IF ~isWindowVisible[m] /\ event.log.type = "message"
              THEN [idleAudio EXCEPT ![m] = @ + 1]
              ELSE idleAudio
  /\ view' = [view EXCEPT ![m] =
                useLayoutEffect([@ EXCEPT !.isReceiving = TRUE,
                                          !.shouldScrollToBottom =
                                             isScrolledToBottom(view[m], state[m].logs)],
                                state[m].logs, state'[m].logs)]
  /\ channel' = [channel EXCEPT ![m] = Tail(@)]
  /\ UNCHANGED <<request, isWindowVisible, posts, nextUuid, dups,
                 serverLogs, nextSeq, groupVars, partyVars, modalVars>>

\* useWindowVisibility: the tab is hidden or shown
VisibilityChange(m) ==
  /\ isWindowVisible' = [isWindowVisible EXCEPT ![m] = ~@]
  /\ UNCHANGED <<state, request, idleAudio, view, posts, channel, nextUuid, dups,
                 serverLogs, nextSeq, groupVars, partyVars, modalVars>>

handleInput(m, value) ==
  /\ request[m].pc # "unmounted"
  /\ value # state[m].message.text
  /\ Dispatch(m, [type |-> "chat:input", payload |-> [input |-> value]])
  /\ UNCHANGED <<request, isWindowVisible, idleAudio, view, posts, channel, nextUuid,
                 dups, serverLogs, nextSeq, groupVars, partyVars, modalVars>>

\* handleMessage up to the await of the POST
handleMessage(m) ==
  /\ request[m].pc # "unmounted"
  /\ nextUuid < MaxSends
  /\ IF ~isSubmittable(state[m])
       THEN UNCHANGED vars
       ELSE LET id == uuid(nextUuid + 1)
                log == AppPartyLog(id, "message", m, state[m].message.text, 0)
            IN /\ nextUuid' = nextUuid + 1
               /\ Dispatch(m, [type |-> "chat:init", payload |-> [log |-> log]])
               /\ view' = [view EXCEPT ![m] =
                             useLayoutEffect([@ EXCEPT !.isReceiving = FALSE],
                                             state[m].logs, state'[m].logs)]
               /\ posts' = posts \cup {[from |-> m, id |-> id, status |-> "sent",
                                        message |-> state[m].message.text,
                                        data |-> NoLog]}
               /\ UNCHANGED <<request, isWindowVisible, idleAudio, channel, dups,
                              serverLogs, nextSeq, groupVars, partyVars, modalVars>>

\* handleMessage after the await: the POST resolved with err == null
PostSuccess(p) ==
  /\ p \in posts /\ p.status = "ok"
  /\ Dispatch(p.from, [type |-> "chat:success", payload |-> [id |-> p.id, log |-> p.data]])
  /\ view' = [view EXCEPT ![p.from] =
                useLayoutEffect(@, state[p.from].logs, state'[p.from].logs)]
  /\ posts' = posts \ {p}
  /\ UNCHANGED <<request, isWindowVisible, idleAudio, channel, nextUuid, dups,
                 serverLogs, nextSeq, groupVars, partyVars, modalVars>>

\* handleMessage after the await: the POST resolved with an error
PostError(p) ==
  /\ p \in posts /\ p.status = "err"
  /\ Dispatch(p.from, [type |-> "chat:error", payload |-> [id |-> p.id]])
  /\ view' = [view EXCEPT ![p.from] =
                useLayoutEffect(@, state[p.from].logs, state'[p.from].logs)]
  /\ posts' = posts \ {p}
  /\ UNCHANGED <<request, isWindowVisible, idleAudio, channel, nextUuid, dups,
                 serverLogs, nextSeq, groupVars, partyVars, modalVars>>

\* handleMessagesContainerScroll, run for the pending 'scroll' event
handleMessagesContainerScroll(m) ==
  /\ view[m].scrollEvent
  /\ view' = [view EXCEPT ![m].scrollEvent = FALSE,
                          ![m].hasUnreadMessages =
                             IF @ /\ isScrolledToBottom(view[m], state[m].logs)
                               THEN FALSE ELSE @]
  /\ UNCHANGED <<state, request, isWindowVisible, idleAudio, posts, channel,
                 nextUuid, dups, serverLogs, nextSeq, groupVars, partyVars, modalVars>>

\* handleClickUnreadMessages: the unread note is clicked
handleClickUnreadMessages(m) ==
  /\ view[m].hasUnreadMessages
  /\ view' = [view EXCEPT ![m] = scrollToBottom(@, state[m].logs)]
  /\ UNCHANGED <<state, request, isWindowVisible, idleAudio, posts, channel,
                 nextUuid, dups, serverLogs, nextSeq, groupVars, partyVars, modalVars>>

\* the user scrolls the message list to another position
UserScroll(m, top) ==
  /\ top \in 0..getScrollableContainerHeight(state[m].logs)
  /\ top # view[m].scrollTop
  /\ view' = [view EXCEPT ![m] = SetScrollTop(@, top)]
  /\ UNCHANGED <<state, request, isWindowVisible, idleAudio, posts, channel,
                 nextUuid, dups, serverLogs, nextSeq, groupVars, partyVars, modalVars>>

(* ---------------------------- server and push channel ------------------ *)
\* LogStore.append: the entry gets the next sequence number of the party
AppendNoIncrement(logs, seq, type, user, text) ==
  [logs |-> Append(logs, AppPartyLog(seq, type, user, text, seq)), nextSeq |-> seq]

Append_(logs, seq, type, user, text) ==
  [logs |-> Append(logs, AppPartyLog(seq, type, user, text, seq)), nextSeq |-> seq + 1]

\* BroadcastHub.publish: the event is queued for every subscription but those
\* of `except' (the connection a broadcast "to others" leaves out)
Publish(log, except) ==
  [m \in Members |->
     IF Subscribed(m) /\ m \notin except THEN Append(channel[m], log) ELSE channel[m]]

\* GET /api/parties/{id}/logs answered with the log as it is now
ServeLogs(m) ==
  /\ request[m].pc = "sent"
  /\ request' = [request EXCEPT ![m] = [pc |-> "ok", logs |-> serverLogs]]
  /\ UNCHANGED <<state, isWindowVisible, idleAudio, view, posts, channel, nextUuid,
                 dups, serverLogs, nextSeq, groupVars, partyVars, modalVars>>

\* GET /api/parties/{id}/logs failed
ServeLogsFail(m) ==
  /\ request[m].pc = "sent"
  /\ request' = [request EXCEPT ![m] = [pc |-> "err", logs |-> <<>>]]
  /\ UNCHANGED <<state, isWindowVisible, idleAudio, view, posts, channel, nextUuid,
                 dups, serverLogs, nextSeq, groupVars, partyVars, modalVars>>

\* POST /api/parties/{id}/logs/message accepted: appended, broadcast, echoed
AcceptMessage(p, toOthers) ==
  /\ p \in posts /\ p.status = "sent"
  /\ Len(serverLogs) < MaxLog
  /\ LET r == Append_(serverLogs, nextSeq, "message", p.from, p.message)
         entry == last(r.logs)
     IN /\ serverLogs' = r.logs
        /\ nextSeq' = r.nextSeq
        /\ channel' = Publish(entry, IF toOthers THEN {p.from} ELSE {})
        /\ posts' = (posts \ {p}) \cup {[p EXCEPT !.status = "ok", !.data = entry]}
  /\ UNCHANGED <<state, request, isWindowVisible, idleAudio, view, nextUuid, dups, groupVars, partyVars, modalVars>>

\* POST /api/parties/{id}/logs/message failed
RejectMessage(p) ==
  /\ p \in posts /\ p.status = "sent"
  /\ posts' = (posts \ {p}) \cup {[p EXCEPT !.status = "err"]}
  /\ UNCHANGED <<state, request, isWindowVisible, idleAudio, view, channel, nextUuid,
                 dups, serverLogs, nextSeq, groupVars, partyVars, modalVars>>

\* a message of a user whose widget is not followed is accepted and broadcast
AcceptRemoteMessage(u, text) ==
  /\ u \notin Members
  /\ Len(serverLogs) < MaxLog
  /\ LET r == Append_(serverLogs, nextSeq, "message", u, text) IN
       /\ serverLogs' = r.logs
       /\ nextSeq' = r.nextSeq
       /\ channel' = Publish(last(r.logs), {})
  /\ UNCHANGED <<state, request, isWindowVisible, idleAudio, view, posts, nextUuid,
                 dups, groupVars, partyVars, modalVars>>

\* the server records an activity of user u (joined, changed the video, ...)
RecordActivity(u) ==
  /\ Len(serverLogs) < MaxLog
  /\ LET r == Append_(serverLogs, nextSeq, "activity", u, <<"a">>) IN
       /\ serverLogs' = r.logs
       /\ nextSeq' = r.nextSeq
       /\ channel' = Publish(last(r.logs), {})
  /\ UNCHANGED <<state, request, isWindowVisible, idleAudio, view, posts, nextUuid,
                 dups, groupVars, partyVars, modalVars>>

\* at-least-once delivery: the event at the head of m's channel comes twice
Redeliver(m) ==
  /\ dups < MaxDup
  /\ channel[m] # <<>>
  /\ channel' = [channel EXCEPT ![m] = <<Head(@)>> \o @]
  /\ dups' = dups + 1
  /\ UNCHANGED <<state, request, isWindowVisible, idleAudio, view, posts, nextUuid,
                 serverLogs, nextSeq, groupVars, partyVars, modalVars>>

(* ---------------------------- chat specification ----------------------- *)
Init == ChatIdle /\ GroupIdle /\ PartyIdle /\ ModalIdle

Next ==
  \/ \E m \in Members : Mount(m)
  \/ \E m \in Members : FetchSuccess(m)
  \/ \E m \in Members : FetchError(m)
  \/ \E m \in Members : PusherLog(m)
  \/ \E m \in Members, value \in Texts : handleInput(m, value)
  \/ \E m \in Members : handleMessage(m)
  \/ \E p \in posts : PostSuccess(p)
  \/ \E p \in posts : PostError(p)
  \/ \E m \in Members : handleMessagesContainerScroll(m)
  \/ \E m \in Members : ServeLogs(m)
  \/ \E m \in Members : ServeLogsFail(m)
  \/ \E p \in posts, toOthers \in BOOLEAN : AcceptMessage(p, toOthers)
  \/ \E p \in posts : RejectMessage(p)
  \/ \E u \in Users : AcceptRemoteMessage(u, <<"a">>)
  \/ \E u \in Users : RecordActivity(u)
  \/ \E m \in Members : Redeliver(m)

Spec == Init /\ [][Next]_vars

\* the submission path alone: the steps that write the server's log or the
\* POSTs in flight
NextSend ==
  \/ \E m \in Members : Mount(m)
  \/ \E m \in Members, value \in Texts : handleInput(m, value)
  \/ \E m \in Members : handleMessage(m)
  \/ \E p \in posts : PostSuccess(p)
  \/ \E p \in posts : PostError(p)
  \/ \E p \in posts, toOthers \in BOOLEAN : AcceptMessage(p, toOthers)
  \/ \E p \in posts : RejectMessage(p)
  \/ \E u \in Users : AcceptRemoteMessage(u, <<"a">>)
  \/ \E u \in Users : RecordActivity(u)

SpecSend == Init /\ [][NextSend]_vars

\* the same, with the tab of a member being hidden and shown
NextNotify ==
  \/ Next
  \/ \E m \in Members : VisibilityChange(m)

SpecNotify == Init /\ [][NextNotify]_vars

\* the widget of one member with a server that answers every request and
\* publishes chat messages only
NextWidget ==
  \/ \E m \in Members : Mount(m)
  \/ \E m \in Members : FetchSuccess(m)
  \/ \E m \in Members : FetchError(m)
  \/ \E m \in Members : PusherLog(m)
  \/ \E m \in Members, value \in Texts : handleInput(m, value)
  \/ \E m \in Members : handleMessage(m)
  \/ \E p \in posts : PostSuccess(p)
  \/ \E p \in posts : PostError(p)
  \/ \E m \in Members : ServeLogs(m)
  \/ \E m \in Members : ServeLogsFail(m)
  \/ \E p \in posts : AcceptMessage(p, TRUE)
  \/ \E p \in posts : RejectMessage(p)
  \/ \E u \in Users : AcceptRemoteMessage(u, <<"a">>)

SpecWidget == Init /\ [][NextWidget]_vars

\* the same, with the member scrolling the message list
NextScroll ==
  \/ NextWidget
  \/ \E m \in Members : handleMessagesContainerScroll(m)
  \/ \E m \in Members : handleClickUnreadMessages(m)
  \/ \E m \in Members, top \in 0..(MaxLog + MaxSends) : UserScroll(m, top)

SpecScroll == Init /\ [][NextScroll]_vars

(* ---------------------------- PartyState event ------------------------- *)
\* Illuminate\Broadcasting\PrivateChannel: the name gets the prefix "private-"
PrivateChannel(name) == "private-" \o name

\* PartyState::broadcastOn
broadcastOnShared(p) == PrivateChannel("party")

broadcastOn(p) == PrivateChannel("party." \o ToString(p.id))

\* PartyState::broadcastAs
broadcastAs == "state"

\* PartyState::broadcastWith
broadcastWith(p) ==
  [state |-> [is_playing |-> p.is_playing, current_time |-> p.current_time]]

\* the channel and the events a viewer's components are bound to:
\* usePusher(`private-party.${props.party.id}`, 'log', ...) in the ChatWidget,
\* and the same channel with 'state' for the player
ChannelOf(v) == "private-party." \o ToString(Watching[v])

BoundEvents == {"log", "state"}

\* the push service hands an envelope to the subscribers of its channel
FanOut(e) ==
  [v \in Users |->
     IF ChannelOf(v) = e.channel /\ e.name \in BoundEvents
       THEN inbox[v] \cup {e} ELSE inbox[v]]

RECURSIVE Accepted(_)
\* the number of playback updates accepted so far in the parties of P
Accepted(P) ==
  IF P = {} THEN 0
  ELSE LET p == CHOOSE q \in P : TRUE IN party[p].version + Accepted(P \ {p})

\* PartyStateStore.update for a toggle or a seek: accepted when the expected
\* version is the stored one, and then a PartyState event is queued; Conflict
\* with the stored state otherwise
UpdateState(p, playing, time, expectedVersion) ==
  /\ Accepted(Parties) < MaxVersion
  /\ <<playing, time>> # <<party[p].is_playing, party[p].current_time>>
  /\ IF expectedVersion = party[p].version
       THEN /\ party' = [party EXCEPT ![p].is_playing = playing,
                                      ![p].current_time = time,
                                      ![p].version = @ + 1]
            /\ jobs' = [jobs EXCEPT ![p] = @ + 1]
            /\ reply' = [status |-> "ok", version |-> party[p].version + 1]
       ELSE /\ reply' = [status |-> "conflict", version |-> party[p].version]
            /\ UNCHANGED <<party, jobs>>
  /\ UNCHANGED <<published, inbox, playback, chatVars, groupVars, modalVars>>

\* a queued PartyState event is broadcast: SerializesModels reloads the
\* Party, then broadcastOn / broadcastAs / broadcastWith build the envelope.
\* `origin' records the row the envelope was built from; it is not sent.
BroadcastState(p) ==
  /\ jobs[p] > 0
  /\ jobs' = [jobs EXCEPT ![p] = @ - 1]
  /\ LET e == [channel |-> broadcastOn(party[p]),
               name |-> broadcastAs,
               payload |-> broadcastWith(party[p]),
               origin |-> party[p]]
     IN /\ published' = published \cup {e}
        /\ inbox' = FanOut(e)
  /\ UNCHANGED <<party, playback, reply, chatVars, groupVars, modalVars>>

\* a log entry of party p is broadcast on the party's channel as 'log'
BroadcastLog(p) ==
  LET sent == {e \in published : e.name = "log"}
      e == [channel |-> PrivateChannel("party." \o ToString(p)),
            name |-> "log",
            payload |-> [log |-> AppPartyLog(Cardinality(sent) + 1, "activity", 1,
                                             <<"a">>, Cardinality(sent) + 1)],
            origin |-> party[p]]
  IN /\ Cardinality(sent) < MaxPartyLogs
     /\ published' = published \cup {e}
     /\ inbox' = FanOut(e)
     /\ UNCHANGED <<party, jobs, playback, reply, chatVars, groupVars, modalVars>>

\* an envelope reaches viewer v, in any order: the callback bound to its name
\* runs; the player applies the payload of a 'state' event
Receive(v, e) ==
  /\ e \in inbox[v]
  /\ inbox' = [inbox EXCEPT ![v] = @ \ {e}]
  /\ playback' =
       IF e.name = "state"
         THEN [playback EXCEPT ![v] = [is_playing |-> e.payload.state.is_playing,
                                       current_time |-> e.payload.state.current_time,
                                       version |-> e.origin.version]]
         ELSE playback
  /\ UNCHANGED <<party, jobs, published, reply, chatVars, groupVars, modalVars>>

NextParty ==
  \/ \E p \in Parties, playing \in BOOLEAN, time \in Times, ev \in 0..MaxVersion :
       UpdateState(p, playing, time, ev)
  \/ \E p \in Parties : BroadcastState(p)
  \/ \E p \in Parties : BroadcastLog(p)
  \/ \E v \in Users : \E e \in inbox[v] : Receive(v, e)

SpecParty == Init /\ [][NextParty]_vars

(* ---------------------------- grouping specification ------------------- *)
\* the kinds of entry the grouping looks at: type and author
LogKinds == LogTypes \X Users

RECURSIVE SeqsUpTo(_, _)
SeqsUpTo(S, n) ==
  IF n = 0 THEN {<<>>}
  ELSE LET shorter == SeqsUpTo(S, n - 1) IN
       shorter \cup {Append(s, x) : s \in {t \in shorter : Len(t) = n - 1}, x \in S}

\* a log list with the given kinds; ids are the positions
LogsOfKinds(ks) ==
  [i \in 1..Len(ks) |-> AppPartyLog(i, ks[i][1], ks[i][2], <<"a">>, i)]

InitGroup ==
  /\ ChatIdle
  /\ PartyIdle
  /\ ModalIdle
  /\ gLogs \in {LogsOfKinds(ks) : ks \in SeqsUpTo(LogKinds, MaxGroupLen)}
  /\ grouped = <<>>
  /\ gPc = "init"

\* first render: grouped = useMemo(groupPartyLogs(state.logs))
GroupRender ==
  /\ gPc = "init"
  /\ grouped' = groupPartyLogs(gLogs)
  /\ gPc' = "rendered"
  /\ UNCHANGED <<gLogs, chatVars, partyVars, modalVars>>

\* state.logs grows by one entry and the memo is recomputed
GroupPush(k) ==
  /\ gPc \in {"rendered", "pushed"}
  /\ Len(gLogs) < MaxGroupLen
  /\ gLogs' = Append(gLogs, AppPartyLog(Len(gLogs) + 1, k[1], k[2], <<"a">>, Len(gLogs) + 1))
  /\ grouped' = groupPartyLogs(gLogs')
  /\ gPc' = "pushed"
  /\ UNCHANGED <<chatVars, partyVars, modalVars>>

NextGroup ==
  \/ GroupRender
  \/ \E k \in LogKinds : GroupPush(k)

SpecGroup == InitGroup /\ [][NextGroup]_vars

(* ---------------------------- ShowModal --------------------------------- *)
ShowModalRequestInit(s) == [s EXCEPT !.groups = <<>>, !.isLoading = TRUE]

ShowModalRequestSuccessFirst(s, payload) ==
  [s EXCEPT !.groups = payload.groups,
            !.selectedGroupId =
               IF Len(payload.groups) > 0 THEN payload.groups[1].id ELSE -1,
            !.isLoading = FALSE]

ShowModalRequestSuccess(s, payload) ==
  [s EXCEPT !.groups = payload.groups,
            !.selectedGroupId =
               IF s.selectedGroupId = -1
                 THEN (IF Len(payload.groups) > 0 THEN payload.groups[1].id ELSE -1)
                 ELSE s.selectedGroupId,
            !.isLoading = FALSE]

ShowModalRequestError(s) == [s EXCEPT !.isLoading = FALSE]

ShowModalClose(s) == [s EXCEPT !.groups = <<>>, !.selectedGroupId = -1]

ShowModalGroupChange(s, payload) == [s EXCEPT !.selectedGroupId = payload.id]

ShowModalReducer(s, action) ==
  CASE action.type = "request:init" -> ShowModalRequestInit(s)
    [] action.type = "request:success" -> ShowModalRequestSuccess(s, action.payload)
    [] action.type = "request:error" -> ShowModalRequestError(s)
    [] action.type = "modal:close" -> ShowModalClose(s)
    [] action.type = "group:change" -> ShowModalGroupChange(s, action.payload)

\* state.groups.find(group => group.id === state.selectedGroupId)
find(groups, id) ==
  IF \E i \in 1..Len(groups) : groups[i].id = id
    THEN groups[CHOOSE i \in 1..Len(groups) :
                  groups[i].id = id /\ \A j \in 1..(i - 1) : groups[j].id # id]
    ELSE undefined

\* useMemo(..., [state.selectedGroupId]) in the render that follows the
\* state going from `old' to `new': recomputed only when the id changed
groupMemo(old, new, group) ==
  IF new.selectedGroupId # old.selectedGroupId
    THEN find(new.groups, new.selectedGroupId) ELSE group

\* the render: "throws" on props.show.title_type of null and on group.videos
\* of undefined, "null" by the guard, "list" otherwise
Render(show, s, group) ==
  IF show = NoShow THEN "throws"
  ELSE IF show.title_type = "movie" \/ s.isLoading \/ Len(s.groups) = 0 THEN "null"
  ELSE IF group = undefined THEN "throws"
  ELSE "list"

AfterRender(show, s, group) ==
  IF Render(show, s, group) = "throws" THEN "crashed" ELSE "mounted"

\* the effect on [props.show]: nothing for no show and for a movie, else
\* request:init and the GET
ShowEffect(show, s, group) ==
  IF show = NoShow \/ show.title_type = "movie"
    THEN /\ mState' = s
         /\ mGroup' = group
         /\ mPc' = AfterRender(show, s, group)
         /\ UNCHANGED <<mFetches, mCount, mAction>>
    ELSE LET action == [type |-> "request:init"]
             t == ShowModalReducer(s, action)
         IN /\ mState' = t
            /\ mGroup' = groupMemo(s, t, group)
            /\ mPc' = IF AfterRender(show, s, group) = "crashed"
                        THEN "crashed" ELSE AfterRender(show, t, mGroup')
            /\ mAction' = action
            /\ mCount' = mCount + 1
            /\ mFetches' = mFetches \cup {[n |-> mCount + 1, show |-> show.id]}

\* the parent renders the modal for the first time
ModalMount(show, initialSelectedGroupId) ==
  /\ mPc = "init"
  /\ mCount < MaxFetches
  /\ mShow' = show
  /\ LET s == ShowModalInit(initialSelectedGroupId) IN
       ShowEffect(show, s, find(s.groups, s.selectedGroupId))
  /\ UNCHANGED <<chatVars, groupVars, partyVars>>

\* the parent renders the modal with another show
ModalSetShow(show) ==
  /\ mPc = "mounted"
  /\ show # mShow
  /\ mCount < MaxFetches
  /\ mShow' = show
  /\ ShowEffect(show, mState, mGroup)
  /\ UNCHANGED <<chatVars, groupVars, partyVars>>

\* a GET resolved with err == null
ModalFetchSuccess(f) ==
  /\ mPc = "mounted"
  /\ f \in mFetches
  /\ LET action == [type |-> "request:success",
                    payload |-> [groups |-> ShowGroups(f.show)]]
         t == ShowModalReducer(mState, action)
     IN /\ mState' = t
        /\ mGroup' = groupMemo(mState, t, mGroup)
        /\ mPc' = AfterRender(mShow, t, mGroup')
        /\ mAction' = action
  /\ mFetches' = mFetches \ {f}
  /\ UNCHANGED <<mShow, mCount, chatVars, groupVars, partyVars>>

\* a GET resolved with an error
ModalFetchError(f) ==
  /\ mPc = "mounted"
  /\ f \in mFetches
  /\ LET action == [type |-> "request:error"]
         t == ShowModalReducer(mState, action)
     IN /\ mState' = t
        /\ mGroup' = groupMemo(mState, t, mGroup)
        /\ mPc' = AfterRender(mShow, t, mGroup')
        /\ mAction' = action
  /\ mFetches' = mFetches \ {f}
  /\ UNCHANGED <<mShow, mCount, chatVars, groupVars, partyVars>>

\* handleGroupChange: an option of the rendered select is chosen
handleGroupChange(id) ==
  /\ mPc = "mounted"
  /\ Render(mShow, mState, mGroup) = "list"
  /\ \E i \in 1..Len(mState.groups) : mState.groups[i].id = id
  /\ LET action == [type |-> "group:change", payload |-> [id |-> id]]
         t == ShowModalReducer(mState, action)
     IN /\ mState' = t
        /\ mGroup' = groupMemo(mState, t, mGroup)
        /\ mPc' = AfterRender(mShow, t, mGroup')
        /\ mAction' = action
  /\ UNCHANGED <<mShow, mFetches, mCount, chatVars, groupVars, partyVars>>

GroupIds == {10, 11, 20}

NextModal ==
  \/ \E show \in Shows \cup {NoShow}, id \in InitialSelectedGroupIds : ModalMount(show, id)
  \/ \E show \in Shows \cup {NoShow} : ModalSetShow(show)
  \/ \E f \in mFetches : ModalFetchSuccess(f)
  \/ \E f \in mFetches : ModalFetchError(f)
  \/ \E id \in GroupIds : handleGroupChange(id)

SpecModal == Init /\ [][NextModal]_vars

\* the reducer of ShowModal applied to every state and every action; the
\* lists of groups are those of at most two of the group ids
GroupLists ==
  {<<>>} \cup {<<AppShowGroup(a)>> : a \in GroupIds}
         \cup {<<AppShowGroup(a), AppShowGroup(b)>> : a, b \in GroupIds}

ShowModalStates ==
  [groups : GroupLists, selectedGroupId : {-1} \cup GroupIds, isLoading : BOOLEAN]

ShowModalActions ==
  {[type |-> "request:init"], [type |-> "request:error"], [type |-> "modal:close"]}
    \cup {[type |-> "request:success", payload |-> [groups |-> gs]] : gs \in GroupLists}
    \cup {[type |-> "group:change", payload |-> [id |-> id]] : id \in GroupIds}

InitReducer ==
  /\ ChatIdle /\ GroupIdle /\ PartyIdle
  /\ mPc = "init"
  /\ mShow = NoShow
  /\ mState \in ShowModalStates
  /\ mGroup = undefined
  /\ mFetches = {}
  /\ mCount = 0
  /\ mAction = NoAction

ReducerStep(action) ==
  /\ mState' = ShowModalReducer(mState, action)
  /\ mAction' = action
  /\ UNCHANGED <<mPc, mShow, mGroup, mFetches, mCount, chatVars, groupVars, partyVars>>

NextReducer == \E action \in ShowModalActions : ReducerStep(action)

SpecReducer == InitReducer /\ [][NextReducer]_vars

(* ---------------------------- claims: grouping ------------------------- *)
RECURSIVE Flatten(_)
Flatten(gs) == IF gs = <<>> THEN <<>> ELSE Head(gs).logs \o Flatten(Tail(gs))

RECURSIVE GroupStart(_, _)
\* position in the input of the first log of group k
GroupStart(gs, k) == IF k = 1 THEN 1 ELSE GroupStart(gs, k - 1) + Len(gs[k - 1].logs)

\* index of the group holding input position i
GroupOf(gs, i) ==
  CHOOSE k \in 1..Len(gs) : GroupStart(gs, k) <= i /\ i < GroupStart(gs, k) + Len(gs[k].logs)

\* the example of the specification: [activity, activity, message(U1), message(U1), message(U2)]
ExampleKinds ==
  << <<"activity", 1>>, <<"activity", 1>>, <<"message", 1>>, <<"message", 1>>, <<"message", 2>> >>

KindsOf(logs) == [i \in 1..Len(logs) |-> <<logs[i].type, logs[i].user>>]

\* C1: the first entry opens a group; each later entry joins the last group
\* exactly when it is an activity after an activity group or a message after
\* a message group by the same author, otherwise it opens a new group; the
\* example list gives 3 groups of sizes 2, 2, 1 authored (messages) by U1, U2.
C1_GroupingRule ==
  (gPc # "init" /\ Len(gLogs) > 0) =>
    /\ Flatten(grouped) = gLogs
    /\ \A k \in 1..Len(grouped) :
         /\ Len(grouped[k].logs) > 0
         /\ grouped[k].type = grouped[k].logs[1].type
         /\ grouped[k].user = grouped[k].logs[1].user
    /\ GroupOf(grouped, 1) = 1
    /\ \A i \in 2..Len(gLogs) :
         LET prev == GroupOf(grouped, i - 1)
             e == gLogs[i]
             joins == \/ (e.type = "activity" /\ grouped[prev].type = "activity")
                      \/ (e.type = "message" /\ grouped[prev].type = "message"
                            /\ grouped[prev].user = e.user)
         IN IF joins THEN GroupOf(grouped, i) = prev
            ELSE /\ GroupOf(grouped, i) = prev + 1
                 /\ GroupStart(grouped, prev + 1) = i
    /\ (KindsOf(gLogs) = ExampleKinds =>
          /\ Len(grouped) = 3
          /\ [k \in 1..3 |-> Len(grouped[k].logs)] = <<2, 2, 1>>
          /\ [k \in 1..3 |-> grouped[k].type] = <<"activity", "message", "message">>
          /\ grouped[2].user = 1 /\ grouped[3].user = 2)

C1_Witness ==
  /\ gPc # "init"
  /\ KindsOf(gLogs) = ExampleKinds
  /\ Len(grouped) = 3

\* C8: regrouping a list that grew by one entry e gives the previous groups
\* with e appended to the last group or added as a new singleton group,
\* decided against the last group only; earlier groups are identical.
C8_Incremental ==
  [][(gPc # "init" /\ Len(gLogs') = Len(gLogs) + 1) =>
       LET e == gLogs'[Len(gLogs')]
           single == [type |-> e.type, user |-> e.user, logs |-> <<e>>]
           n == Len(grouped)
       IN IF n = 0 THEN grouped' = <<single>>
          ELSE LET joins == \/ (e.type = "activity" /\ grouped[n].type = "activity")
                            \/ (e.type = "message" /\ grouped[n].type = "message"
                                  /\ grouped[n].user = e.user)
               IN /\ \A k \in 1..(n - 1) : grouped'[k] = grouped[k]
                  /\ joins => /\ Len(grouped') = n
                              /\ grouped'[n] = [grouped[n] EXCEPT !.logs = Append(@, e)]
                  /\ ~joins => grouped' = Append(grouped, single)]_vars

C8_Witness ==
  /\ gPc = "pushed"
  /\ Len(grouped) >= 2
  /\ Len(last(grouped).logs) >= 2

(* ---------------------------- claims: chat log ------------------------- *)
\* the 'log' handler of member m runs in this step
Handled(m) == channel[m] # <<>> /\ channel'[m] = Tail(channel[m])

\* the history load of member m completes with request:success in this step
HistoryApplied(m) == request[m].pc = "ok" /\ request'[m].pc = "done"

\* C2: a member's chat log never holds two entries with the same id, so no
\* message is shown twice, whatever events are pushed, sent or confirmed.
C2_NoDuplicateIds ==
  \A m \in Members : \A i, j \in 1..Len(state[m].logs) :
    i # j => state[m].logs[i].id # state[m].logs[j].id

\* C3: when the confirmation of a send is dispatched, the entry with the
\* pending id is replaced in place by the server's entry; the length and all
\* other entries stay as they were.
C3_ReplaceById ==
  [][\A p \in posts :
       (p.status = "ok" /\ p \notin posts') =>
         LET old == state[p.from].logs
             new == state'[p.from].logs
         IN /\ Len(new) = Len(old)
            /\ \E i \in 1..Len(old) :
                 /\ old[i].id = p.id
                 /\ new[i] = p.data
                 /\ \A j \in 1..Len(old) : j # i => new[j] = old[j]]_vars

\* C4: a pushed message plays the attention sound for a member whose window
\* is not visible, but never for its author; an activity never plays it.
C4_Suppression ==
  [][\A m \in Members :
       Handled(m) =>
         LET log == Head(channel[m])
             played == idleAudio'[m] # idleAudio[m]
         IN /\ (log.type = "message" /\ log.user # m /\ ~isWindowVisible[m]) => played
            /\ (log.type = "message" /\ log.user = m) => ~played
            /\ log.type = "activity" => ~played]_vars

\* C5: no pushed log event is lost by the history load: every pushed entry
\* in the chat log is still there once request:success has been applied.
C5_NoPushedLost ==
  [][\A m \in Members :
       HistoryApplied(m) =>
         \A i \in 1..Len(state[m].logs) :
           LET e == state[m].logs[i] IN
           (e.seq > 0 /\ ~(e.type = "message" /\ e.user = m)) =>
             \E j \in 1..Len(state'[m].logs) : state'[m].logs[j] = e]_vars

\* C6: accepted entries appear in a member's chat log in the order in which
\* the server accepted them.
C6_ServerOrder ==
  \A m \in Members : \A i, j \in 1..Len(state[m].logs) :
    (i < j /\ state[m].logs[i].seq > 0 /\ state[m].logs[j].seq > 0) =>
      state[m].logs[i].seq <= state[m].logs[j].seq

\* C10: the accepted entries carry the sequence numbers 1, 2, 3, ... in the
\* order of acceptance: a strict total order without gaps or duplicates.
C10_SeqTotalOrder ==
  /\ \A i \in 1..Len(serverLogs) : serverLogs[i].seq = i
  /\ nextSeq = Len(serverLogs) + 1

\* two submissions were in flight together and accepted in the other order
C10_Witness ==
  \E p, q \in posts :
    /\ p.status = "ok" /\ q.status = "ok"
    /\ p.id < q.id
    /\ p.data.seq > q.data.seq

(* ---------------------------- claims: party channel -------------------- *)
\* C7: a PartyState event of party p goes out on the private channel of
\* 'party.p' as 'state' with exactly p's is_playing and current_time, and a
\* viewer only ever receives events of the party they are watching.
C7_Isolation ==
  /\ \A e \in published :
       e.name = "state" =>
         /\ e.channel = "private-party." \o ToString(e.origin.id)
         /\ e.payload = [state |-> [is_playing |-> e.origin.is_playing,
                                    current_time |-> e.origin.current_time]]
  /\ \A v \in Users : \A e \in inbox[v] : e.origin.id = Watching[v]

\* a viewer is receiving the state of their party while an event of the
\* other party has been published
C7_Witness ==
  \E v \in Users :
    /\ \E e \in inbox[v] : e.name = "state" /\ e.origin.id = Watching[v]
    /\ \E e \in published : e.origin.id # Watching[v]

\* C9: every accepted update takes the version one step up, a rejected one
\* changes nothing, and no viewer applies a state of an older version after
\* one of a newer version, in whatever order the broadcasts arrive.
C9_NoStaleState ==
  [][/\ \A p \in Parties :
          /\ party'[p].version \in {party[p].version, party[p].version + 1}
          /\ party'[p] # party[p] => reply'.status = "ok"
     /\ \A v \in Users : playback'[v].version >= playback[v].version]_vars

(* ---------------------------- claims: grouping, partition --------------- *)
\* C15: the groups are an order-preserving partition of the input: their
\* entries concatenated give the input, no group is empty, the empty input
\* gives no groups, every entry has its group's type, every entry of a
\* message group has the group's author, and no two neighbouring groups are
\* both activity groups or both message groups of one author.
C15_Partition ==
  gPc # "init" =>
    /\ Flatten(grouped) = gLogs
    /\ (gLogs = <<>> => grouped = <<>>)
    /\ \A k \in 1..Len(grouped) :
         /\ grouped[k].logs # <<>>
         /\ \A i \in 1..Len(grouped[k].logs) :
              /\ grouped[k].logs[i].type = grouped[k].type
              /\ grouped[k].type = "message" => grouped[k].logs[i].user = grouped[k].user
    /\ \A k \in 1..(Len(grouped) - 1) :
         /\ ~(grouped[k].type = "activity" /\ grouped[k + 1].type = "activity")
         /\ ~(/\ grouped[k].type = "message" /\ grouped[k + 1].type = "message"
              /\ grouped[k].user = grouped[k + 1].user)

\* a list with activities of two users in one group, followed by a message group
C15_Witness ==
  /\ gPc # "init"
  /\ Len(grouped) >= 2
  /\ grouped[1].type = "activity"
  /\ \E i \in 1..Len(grouped[1].logs) : grouped[1].logs[i].user # grouped[1].user
  /\ grouped[2].type = "message"
  /\ Len(grouped[2].logs) >= 2

(* ---------------------------- claims: sending --------------------------- *)
\* a step of handleMessage that sends, and the steps that end a POST
SendStep == nextUuid' = nextUuid + 1

PostErrorStep(m) ==
  \E p \in posts : p.from = m /\ p.status = "err" /\ posts' = posts \ {p}

PostSuccessStep(m) ==
  \E p \in posts : p.from = m /\ p.status = "ok" /\ posts' = posts \ {p}

\* the entry at position i was appended by a send whose POST has failed
FailedEntry(m, i) ==
  /\ state[m].logs[i].id > uuid(0)
  /\ \A p \in posts : p.id # state[m].logs[i].id

\* C11: the step that handles a failed POST leaves the whole chat state
\* (logs, draft text, isLoading) as it was, and the entry of a failed send
\* keeps its place and its content through every later step except the one
\* that applies a loaded history.
C11_FailedSendNoOp ==
  [][\A m \in Members :
       /\ PostErrorStep(m) => state'[m] = state[m]
       /\ \A i \in 1..Len(state[m].logs) :
            FailedEntry(m, i) /\ ~HistoryApplied(m) =>
              /\ i <= Len(state'[m].logs)
              /\ state'[m].logs[i] = state[m].logs[i]]_vars

\* a failed entry is still in the log after a later entry was added behind it
C11_Witness ==
  \E m \in Members : \E i \in 1..Len(state[m].logs) :
    FailedEntry(m, i) /\ i < Len(state[m].logs)

HasNonWhitespace(t) == \E i \in 1..Len(t) : t[i] \notin Whitespace

\* C16: a step adds a POST or an entry with a client id only as a send of
\* handleMessage; a send happens only when the draft holds a character that
\* is not whitespace, appends exactly one entry at the end of the log (type
\* message, the member as author, the draft as text), empties the draft and
\* adds exactly one POST carrying the draft.
C16_SendGuard ==
  [][\A m \in Members :
       LET s == state[m]
           t == state'[m]
       IN /\ SendStep /\ t # s =>
               /\ HasNonWhitespace(s.message.text)
               /\ Len(t.logs) = Len(s.logs) + 1
               /\ SubSeq(t.logs, 1, Len(s.logs)) = s.logs
               /\ last(t.logs).type = "message"
               /\ last(t.logs).user = m
               /\ last(t.logs).text = s.message.text
               /\ last(t.logs).id = uuid(nextUuid')
               /\ t.message.text = <<>>
               /\ \E p \in posts' \ posts :
                    /\ posts' = posts \cup {p}
                    /\ p.from = m /\ p.id = last(t.logs).id
                    /\ p.message = s.message.text
          /\ ~HasNonWhitespace(s.message.text) =>
               /\ ~SendStep
               /\ \A i \in 1..Len(t.logs) :
                    t.logs[i].id > uuid(0) =>
                      \E j \in 1..Len(s.logs) : s.logs[j] = t.logs[i]
               /\ \A p \in posts' : p.id \in {q.id : q \in posts}]_vars

\* a sent entry closes the log, its POST is in flight and the draft is empty
C16_Witness ==
  \E m \in Members : \E p \in posts :
    /\ state[m].logs # <<>>
    /\ last(state[m].logs).id = p.id
    /\ HasNonWhitespace(last(state[m].logs).text)
    /\ p.status = "sent"
    /\ state[m].message.text = <<>>

(* ---------------------------- claims: append-only log ------------------- *)
IsAppendOf(new, old) ==
  Len(new) = Len(old) + 1 /\ SubSeq(new, 1, Len(old)) = old

\* C17: a handled push and a send each add one entry at the tail and keep
\* the entries before it; the steps of request:init, request:error,
\* chat:input and chat:error leave the log as it was; the step of
\* chat:success keeps its length; no step other than the one applying a
\* loaded history changes the log in any other way.
C17_AppendOnly ==
  [][\A m \in Members :
       LET old == state[m].logs
           new == state'[m].logs
       IN /\ Handled(m) => IsAppendOf(new, old)
          /\ SendStep /\ state'[m] # state[m] => IsAppendOf(new, old)
          /\ request[m].pc = "unmounted" /\ request'[m].pc = "sent" => new = old
          /\ request[m].pc = "err" /\ request'[m].pc = "done" => new = old
          /\ state'[m].message.text # state[m].message.text /\ ~SendStep => new = old
          /\ PostErrorStep(m) => new = old
          /\ PostSuccessStep(m) => Len(new) = Len(old)
          /\ ~HistoryApplied(m) =>
               \/ new = old
               \/ IsAppendOf(new, old) /\ (Handled(m) \/ SendStep)
               \/ Len(new) = Len(old) /\ PostSuccessStep(m)]_vars

\* after the history was applied, the member's own entry was appended and a
\* pushed entry was appended behind it
C17_Witness ==
  \E m \in Members :
    /\ request[m].pc = "done"
    /\ Len(state[m].logs) >= 2
    /\ \E i \in 1..(Len(state[m].logs) - 1) :
         /\ state[m].logs[i].id > uuid(0)
         /\ state[m].logs[i + 1].id < uuid(0)

(* ---------------------------- claims: unread note ----------------------- *)
\* C12: when the list grows by a send, or by a push handled while the view
\* was at the bottom, the view ends at the bottom and the unread note is not
\* set; the note is set only by a handled push that found the view away from
\* the bottom; the scroll handler that finds the note set and the view at
\* the bottom clears it.
C12_UnreadNote ==
  [][\A m \in Members :
       LET v == view[m]
           w == view'[m]
           old == state[m].logs
           new == state'[m].logs
           Set == ~v.hasUnreadMessages /\ w.hasUnreadMessages
       IN /\ /\ IsAppendOf(new, old)
             /\ SendStep \/ (Handled(m) /\ isScrolledToBottom(v, old))
             => isScrolledToBottom(w, new) /\ ~Set
          /\ Set => Handled(m) /\ ~isScrolledToBottom(v, old)
          /\ /\ v.scrollEvent /\ ~w.scrollEvent
             /\ v.hasUnreadMessages /\ isScrolledToBottom(v, old)
             => ~w.hasUnreadMessages]_vars

(* ---------------------------- claims: ShowModal ------------------------- *)
\* C13: request:success puts the fetched groups in the state and clears
\* isLoading; with no selection (-1) it selects the first fetched group, or
\* stays at -1 when none was fetched; with a selection it keeps it.
\* modal:close empties the groups and resets the selection to -1.
C13_ShowModalReducer ==
  [][LET a == mAction' IN
       /\ a.type = "request:success" =>
            /\ mState'.groups = a.payload.groups
            /\ ~mState'.isLoading
            /\ mState.selectedGroupId = -1 /\ a.payload.groups # <<>> =>
                 mState'.selectedGroupId = Head(a.payload.groups).id
            /\ mState.selectedGroupId = -1 /\ a.payload.groups = <<>> =>
                 mState'.selectedGroupId = -1
            /\ mState.selectedGroupId # -1 =>
                 mState'.selectedGroupId = mState.selectedGroupId
       /\ a.type = "modal:close" =>
            mState'.groups = <<>> /\ mState'.selectedGroupId = -1]_vars

\* request:success has kept a selection that is none of the fetched groups
C13_Witness ==
  /\ mAction.type = "request:success"
  /\ mAction.payload.groups # <<>>
  /\ mState.groups = mAction.payload.groups
  /\ mState.selectedGroupId # -1
  /\ \A i \in 1..Len(mState.groups) : mState.groups[i].id # mState.selectedGroupId

\* C14: whenever the render guard lets the episode list through (a show that
\* is not a movie, isLoading false, groups not empty), selectedGroupId is the
\* id of one of state.groups and the memoised group is that group.
C14_SelectionValid ==
  /\ mPc # "init"
  /\ mShow # NoShow /\ mShow.title_type # "movie"
  /\ ~mState.isLoading
  /\ mState.groups # <<>>
  => /\ \E i \in 1..Len(mState.groups) : mState.groups[i].id = mState.selectedGroupId
     /\ mGroup = find(mState.groups, mState.selectedGroupId)

====
